---- MODULE Spec2Model ----
(***************************************************************************)
(* The attachment layout of the Necklace component                         *)
(* (src/components/3d/Necklace.tsx): the memoized computation of the       *)
(* attachment point transforms and the resolution of the charm bindings.   *)
(* Around it: Scene with its demo necklace and the model assets of the     *)
(* base and of the charms (SpecScene), the animation of the charms         *)
(* (SpecCharm), the camera transitions of useCameraControls (SpecCamera)   *)
(* and the functions of hooks/useNecklaceLoader.ts: the hook               *)
(* useNecklaceLoader (SpecLoader) and getModelPath (SpecPath).             *)
(*                                                                         *)
(* Numbers are JavaScript doubles in the source.  Here a number v is the   *)
(* integer round(v * Scale) (fixed point), and every arithmetic operation  *)
(* rounds its result to the nearest representable value, as a floating     *)
(* point operation does.                                                   *)
(***************************************************************************)
EXTENDS Integers, Sequences, FiniteSets, TLC

\* ---------------------------------------------------------------- bounds
MaxPoints == 4

MaxCharms == 2

\* the seconds of animation that are explored
MaxTime == 1

\* the camera transitions that are started in a run
MaxTransitions == 2

\* the pieces a model path given to getModelPath is put together from
MaxSegments == 3

\* the calls of getModelPath that are chained, each on the result of the
\* call before
MaxCalls == 2

\* ------------------------------------------------------------ arithmetic
Scale == 10000

Num(i) == i * Scale

Abs(a) == IF a < 0 THEN -a ELSE a

\* a / b rounded to the nearest integer (b > 0)
RoundDiv(a, b) == IF a >= 0 THEN (2 * a + b) \div (2 * b)
                            ELSE -((2 * (-a) + b) \div (2 * b))

\* the product and the quotient of two numbers, rounded
FMul(a, b) == RoundDiv(a * b, Scale)

FDiv(a, b) == RoundDiv(a * Scale, b)

\* Math.PI
PI == 31416

TwoPi == FMul(Num(2), PI)

HalfPi == FDiv(PI, Num(2))

\* cosine on [0, PI/2]: the Taylor polynomial of degree 10, in Horner form
CosCore(x) ==
  LET x2 == FMul(x, x)
      t5 == Scale - RoundDiv(x2, 90)
      t4 == Scale - RoundDiv(FMul(x2, t5), 56)
      t3 == Scale - RoundDiv(FMul(x2, t4), 30)
      t2 == Scale - RoundDiv(FMul(x2, t3), 12)
  IN  Scale - RoundDiv(FMul(x2, t2), 2)

\* Math.cos: reduction of the angle to the first quadrant, then CosCore
Cos(t) ==
  LET r == t % TwoPi
  IN  IF r <= HalfPi THEN CosCore(r)
      ELSE IF r <= PI THEN -CosCore(PI - r)
      ELSE IF r <= PI + HalfPi THEN -CosCore(r - PI)
      ELSE CosCore(TwoPi - r)

\* Math.sin: sin t = cos (t - PI/2)
Sin(t) == Cos((t % TwoPi) + TwoPi - HalfPi)

\* ------------------------------------------------------------ the values
\* undefined / null of the source
Undefined == <<>>

Null == [type |-> "null"]

\* null as a value of type string | null
NullId == "null"

\* a || b on values that are either undefined or an object (objects and
\* arrays are truthy)
OrElse(a, b) == IF a = Undefined THEN b ELSE a

\* the y coordinate of every attachment point
YOffset == -5000

\* AttachmentPoint values a base is built from
PointA == [id |-> "a", position |-> <<0, -5000, 10000>>, rotation |-> <<0, 0, 0>>,
           type |-> "centerpiece", maxCharmSize |-> 20000, occupied |-> TRUE]

PointB == [id |-> "b", position |-> <<-12000, -5000, 8000>>, rotation |-> <<0, 0, 0>>,
           type |-> "segment", maxCharmSize |-> 10000, occupied |-> FALSE]

PointPool == {PointA, PointB}

\* base.length: 2 * PI, 8 (the demo base) and 3
Lengths == {TwoPi, Num(8), Num(3)}

CustomPos == <<1234, 5678, -4321>>

CustomRot == <<7000, 0, -2500>>

CharmHeart == [id |-> "heart-pendant", size |-> 15000, weight |-> 5000,
               attachmentType |-> "centerpiece"]

Binding(id, customPosition, customRotation) ==
  [charm |-> CharmHeart, attachmentPointId |-> id,
   customPosition |-> customPosition, customRotation |-> customRotation]

\* the entries of necklace.charms: each combination of overrides (none,
\* position only, rotation only, both), on the ids "a" and "b"; an id
\* dangles when the base has no point of that id
Bindings ==
  { Binding("a", Undefined, Undefined), Binding("a", CustomPos, Undefined),
    Binding("b", Undefined, CustomRot), Binding("b", CustomPos, CustomRot) }

SeqsUpTo(set, n) == UNION {[1..k -> set] : k \in 0..n}

PointLists == SeqsUpTo(PointPool, MaxPoints)

BindingLists == SeqsUpTo(Bindings, MaxCharms)

\* ------------------------------------------------ the layout computation
\* Radius that divides by PI only
RadiusOfDiameter(length) == FDiv(length, PI)

\* necklace.base.length / (2 * Math.PI)
Radius(length) == FDiv(length, FMul(Num(2), PI))

\* Angle without the factor 2
AngleHalfTurn(index, n) == FMul(FDiv(Num(index), Num(n)), PI)

\* (index / attachmentPoints.length) * Math.PI * 2
Angle(index, n) == FMul(FMul(FDiv(Num(index), Num(n)), PI), Num(2))

\* CalculatedPoint with the rotation about the x axis
CalculatedPointPitch(point, index, n, radius) ==
  LET angle == Angle(index, n)
      x == FMul(Cos(angle), radius)
      z == FMul(Sin(angle), radius)
      y == YOffset
  IN  [calculatedPosition |-> <<x, y, z>>,
       calculatedRotation |-> <<angle, 0, 0>>] @@ point

\* CalculatedPoint that runs clockwise
CalculatedPointClockwise(point, index, n, radius) ==
  LET angle == Angle(index, n)
      x == FMul(Cos(angle), radius)
      z == -FMul(Sin(angle), radius)
      y == YOffset
  IN  [calculatedPosition |-> <<x, y, z>>,
       calculatedRotation |-> <<0, angle, 0>>] @@ point

\* CalculatedPoint that takes the declared position and rotation of the
\* point for the calculated ones
CalculatedPointDeclared(point, index, n, radius) ==
  [calculatedPosition |-> point.position,
   calculatedRotation |-> point.rotation] @@ point

\* the callback of attachmentPoints.map; the spread of point first, then the
\* two calculated fields
CalculatedPoint(point, index, n, radius) ==
  LET angle == Angle(index, n)
      x == FMul(Cos(angle), radius)
      z == FMul(Sin(angle), radius)
      y == YOffset
  IN  [calculatedPosition |-> <<x, y, z>>,
       calculatedRotation |-> <<0, angle, 0>>] @@ point

\* CalculateAttachmentPositions that counts the points from 1
CalculateAttachmentPositionsOneBased(attachmentPoints, length) ==
  LET radius == Radius(length)
      n == Len(attachmentPoints)
  IN  [k \in 1..n |-> CalculatedPoint(attachmentPoints[k], k, n, radius)]

\* the body of the useMemo of calculateAttachmentPositions
CalculateAttachmentPositions(attachmentPoints, length) ==
  LET radius == Radius(length)
      n == Len(attachmentPoints)
  IN  [k \in 1..n |-> CalculatedPoint(attachmentPoints[k], k - 1, n, radius)]

\* Find with the predicate point.id !== id
FindInverted(points, id) ==
  IF \E k \in 1..Len(points) : points[k].id # id
  THEN points[CHOOSE k \in 1..Len(points) :
                /\ points[k].id # id
                /\ \A j \in 1..(k - 1) : points[j].id = id]
  ELSE Undefined

\* Find that returns the last element with the id
FindLast(points, id) ==
  IF \E k \in 1..Len(points) : points[k].id = id
  THEN points[CHOOSE k \in 1..Len(points) :
                /\ points[k].id = id
                /\ \A j \in (k + 1)..Len(points) : points[j].id # id]
  ELSE Undefined

\* Array.prototype.find with the predicate point.id === id
Find(points, id) ==
  IF \E k \in 1..Len(points) : points[k].id = id
  THEN points[CHOOSE k \in 1..Len(points) :
                /\ points[k].id = id
                /\ \A j \in 1..(k - 1) : points[j].id # id]
  ELSE Undefined

\* the value a throw of TypeError is modelled by
TypeError == [type |-> "TypeError"]

\* obj.field: reading a property of undefined throws a TypeError
Read(obj, field) == IF obj = Undefined THEN TypeError ELSE obj[field]

\* RenderCharm with && in the place of ||
RenderCharmAnd(charmData, index, positions) ==
  LET attachmentPoint == Find(positions, charmData.attachmentPointId)
      position == IF charmData.customPosition = Undefined THEN Undefined
                  ELSE Read(attachmentPoint, "calculatedPosition")
      rotation == IF charmData.customRotation = Undefined THEN Undefined
                  ELSE Read(attachmentPoint, "calculatedRotation")
  IN  IF attachmentPoint = Undefined THEN Null
      ELSE IF position = TypeError \/ rotation = TypeError THEN TypeError
      ELSE [type |-> "Charm",
            key |-> <<charmData.charm.id, index>>,
            charm |-> charmData.charm,
            position |-> position,
            rotation |-> rotation]

\* RenderCharm with the rotation override honoured only next to a position
\* override
RenderCharmCoupled(charmData, index, positions) ==
  LET attachmentPoint == Find(positions, charmData.attachmentPointId)
      position == OrElse(charmData.customPosition,
                         Read(attachmentPoint, "calculatedPosition"))
      rotation == IF charmData.customPosition = Undefined
                  THEN Read(attachmentPoint, "calculatedRotation")
                  ELSE OrElse(charmData.customRotation,
                              Read(attachmentPoint, "calculatedRotation"))
  IN  IF attachmentPoint = Undefined THEN Null
      ELSE IF position = TypeError \/ rotation = TypeError THEN TypeError
      ELSE [type |-> "Charm",
            key |-> <<charmData.charm.id, index>>,
            charm |-> charmData.charm,
            position |-> position,
            rotation |-> rotation]

\* RenderCharm without the early return on a point that was not found
RenderCharmNoGuard(charmData, index, positions) ==
  LET attachmentPoint == Find(positions, charmData.attachmentPointId)
      position == OrElse(charmData.customPosition,
                         Read(attachmentPoint, "calculatedPosition"))
      rotation == OrElse(charmData.customRotation,
                         Read(attachmentPoint, "calculatedRotation"))
  IN  IF position = TypeError \/ rotation = TypeError THEN TypeError
      ELSE [type |-> "Charm",
            key |-> <<charmData.charm.id, index>>,
            charm |-> charmData.charm,
            position |-> position,
            rotation |-> rotation]

\* RenderCharm that looks the point up only when an override is missing
RenderCharmOverrideFirst(charmData, index, positions) ==
  LET attachmentPoint == Find(positions, charmData.attachmentPointId)
      complete == /\ charmData.customPosition # Undefined
                  /\ charmData.customRotation # Undefined
      position == OrElse(charmData.customPosition,
                         Read(attachmentPoint, "calculatedPosition"))
      rotation == OrElse(charmData.customRotation,
                         Read(attachmentPoint, "calculatedRotation"))
  IN  IF ~complete /\ attachmentPoint = Undefined THEN Null
      ELSE [type |-> "Charm",
            key |-> <<charmData.charm.id, index>>,
            charm |-> charmData.charm,
            position |-> position,
            rotation |-> rotation]

\* RenderCharm that places a charm only on a point of its attachment type
\* that is large enough for it
RenderCharmChecked(charmData, index, positions) ==
  LET attachmentPoint == Find(positions, charmData.attachmentPointId)
      position == OrElse(charmData.customPosition,
                         Read(attachmentPoint, "calculatedPosition"))
      rotation == OrElse(charmData.customRotation,
                         Read(attachmentPoint, "calculatedRotation"))
  IN  IF attachmentPoint = Undefined THEN Null
      ELSE IF \/ charmData.charm.size > attachmentPoint.maxCharmSize
              \/ charmData.charm.attachmentType # attachmentPoint.type
      THEN Null
      ELSE [type |-> "Charm",
            key |-> <<charmData.charm.id, index>>,
            charm |-> charmData.charm,
            position |-> position,
            rotation |-> rotation]

\* the callback of necklace.charms.map in renderCharms; index is 0-based
RenderCharm(charmData, index, positions) ==
  LET attachmentPoint == Find(positions, charmData.attachmentPointId)
      position == OrElse(charmData.customPosition,
                         Read(attachmentPoint, "calculatedPosition"))
      rotation == OrElse(charmData.customRotation,
                         Read(attachmentPoint, "calculatedRotation"))
  IN  IF attachmentPoint = Undefined THEN Null
      ELSE IF position = TypeError \/ rotation = TypeError THEN TypeError
      ELSE [type |-> "Charm",
            key |-> <<charmData.charm.id, index>>,
            charm |-> charmData.charm,
            position |-> position,
            rotation |-> rotation]

\* RenderCharms that drops the null children
RenderCharmsFiltered(charms, positions) ==
  LET all == [k \in 1..Len(charms) |-> RenderCharm(charms[k], k - 1, positions)]
  IN  SelectSeq(all, LAMBDA child : child # Null)

\* renderCharms: necklace.charms.map
RenderCharms(charms, positions) ==
  [k \in 1..Len(charms) |-> RenderCharm(charms[k], k - 1, positions)]

\* ------------------------------------------------------------- the state
VARIABLES
  necklace,      \* the necklace prop of the last render
  memo,          \* the useMemo cell of calculateAttachmentPositions
  rendered,      \* the children returned by renderCharms in the last render
  error,         \* the exception the last render threw, or "none"
  hoveredCharm,  \* the hoveredCharm state of Scene
  gltf,          \* the useGLTF cache: model path -> state of its load
  models,        \* what NecklaceModel / each CharmModel returned last
  warned,        \* the model paths console.warn was called for in the
                 \* last render
  sway,          \* the animation clock of the charms and their meshes
  controls,      \* the refs of useCameraControls and the camera
  loader,        \* the hook cells of a useNecklaceLoader instance
  path           \* a call of getModelPath: its arguments and its result

\* the state of the Necklace component
necklaceVars == <<necklace, memo, rendered, error>>

\* the state of Scene and of the model components below Necklace
sceneVars == <<hoveredCharm, gltf, models, warned>>

\* the state of the functions of useNecklaceLoader.ts
hookVars == <<loader, path>>

vars == <<necklace, memo, rendered, error, hoveredCharm, gltf, models,
          warned, sway, controls, loader, path>>

\* UseMemo that compares the last dependency only
UseMemoLastDep(cell, deps, value) ==
  IF cell # Undefined /\ cell.deps[Len(deps)] = deps[Len(deps)] THEN cell
  ELSE [deps |-> deps, value |-> value]

\* useMemo: the cell is recomputed when a dependency is not Object.is-equal
\* to the one of the previous render
UseMemo(cell, deps, value) ==
  IF cell # Undefined /\ cell.deps = deps THEN cell
  ELSE [deps |-> deps, value |-> value]

\* a callback of renderCharms threw
Thrown(children) == \E k \in 1..Len(children) : children[k] = TypeError

\* InputAfterRender of a map callback that assigns the computed fields to
\* the point it is given
InputAfterRenderAssigned(nk) ==
  [nk EXCEPT !.attachmentPoints = CalculateAttachmentPositions(@, nk.length)]

\* the necklace object the parent holds, after a render that was given it:
\* the map callback of calculateAttachmentPositions builds a new object
\* from ...point and the one of renderCharms only reads charmData, and
\* neither assigns to a field of its argument
InputAfterRender(nk) == nk

\* one call of the Necklace function component with the prop nk; a throw in
\* renderCharms aborts the render and leaves the previous children in place
Render(nk) ==
  /\ necklace' = InputAfterRender(nk)
  /\ memo' = UseMemo(memo, <<nk.pointsRef, nk.length>>,
                     CalculateAttachmentPositions(nk.attachmentPoints, nk.length))
  /\ error' = IF Thrown(RenderCharms(nk.charms, memo'.value))
              THEN "TypeError" ELSE "none"
  /\ rendered' = IF error' = "none"
                 THEN RenderCharms(nk.charms, memo'.value) ELSE rendered

\* the state after the first render (mount), of a base that has no
\* attachment point and no charm yet
Init ==
  \E l \in Lengths :
    /\ necklace = [length |-> l, attachmentPoints |-> <<>>, pointsRef |-> 0,
                   charms |-> <<>>]
    /\ memo = UseMemo(Undefined, <<necklace.pointsRef, necklace.length>>,
                      CalculateAttachmentPositions(necklace.attachmentPoints,
                                                   necklace.length))
    /\ error = IF Thrown(RenderCharms(necklace.charms, memo.value))
               THEN "TypeError" ELSE "none"
    /\ rendered = IF error = "none"
                  THEN RenderCharms(necklace.charms, memo.value) ELSE <<>>
    /\ hoveredCharm = NullId
    /\ gltf = <<>>
    /\ models = <<>>
    /\ warned = {}
    /\ sway = <<>>
    /\ controls = <<>>
    /\ loader = <<>>
    /\ path = <<>>

\* a render of Necklace on its own: nothing outside it changes
RenderNecklace(nk) ==
  /\ Render(nk)
  /\ UNCHANGED <<sceneVars, sway, controls, hookVars>>

\* the parent renders again with the same necklace
Rerender == RenderNecklace(necklace)

\* the parent renders with a base of another length (same attachmentPoints
\* array)
RenderLength ==
  \E l \in Lengths \ {necklace.length} :
    RenderNecklace([necklace EXCEPT !.length = l])

\* a fresh array object never is the one of the previous render
NewRef(ref) == 1 - ref

\* the parent renders with a new attachmentPoints array that is a copy of
\* the current one
RenderPointsCopied ==
  RenderNecklace([necklace EXCEPT !.pointsRef = NewRef(@)])

\* the parent renders with a new attachmentPoints array that has one more
\* point at the end
RenderPointAdded ==
  /\ Len(necklace.attachmentPoints) < MaxPoints
  /\ \E point \in PointPool :
       RenderNecklace([necklace EXCEPT !.attachmentPoints = Append(@, point),
                               !.pointsRef = NewRef(@)])

\* the parent renders with a new attachmentPoints array without the last
\* point
RenderPointRemoved ==
  /\ Len(necklace.attachmentPoints) > 0
  /\ RenderNecklace([necklace EXCEPT
               !.attachmentPoints = SubSeq(@, 1, Len(@) - 1),
               !.pointsRef = NewRef(@)])

\* the parent renders with one more binding at the end of necklace.charms
RenderCharmAttached ==
  /\ Len(necklace.charms) < MaxCharms
  /\ \E charmData \in Bindings :
       RenderNecklace([necklace EXCEPT !.charms = Append(@, charmData)])

\* the parent renders without the last binding of necklace.charms
RenderCharmDetached ==
  /\ Len(necklace.charms) > 0
  /\ RenderNecklace([necklace EXCEPT !.charms = SubSeq(@, 1, Len(@) - 1)])

Next ==
  \/ Rerender
  \/ RenderLength
  \/ RenderPointsCopied
  \/ RenderPointAdded
  \/ RenderPointRemoved
  \/ RenderCharmAttached
  \/ RenderCharmDetached

Spec == Init /\ [][Next]_vars

\* --------------------------------------------- Scene and the model assets
\* the attachment points of demoNecklace.base
DemoPoints ==
  << [id |-> "center", position |-> <<0, -5000, 10000>>,
      rotation |-> <<0, 0, 0>>, type |-> "centerpiece",
      maxCharmSize |-> 20000, occupied |-> TRUE],
     [id |-> "left", position |-> <<-12000, -5000, 8000>>,
      rotation |-> <<0, 0, 0>>, type |-> "segment",
      maxCharmSize |-> 10000, occupied |-> TRUE],
     [id |-> "right", position |-> <<12000, -5000, 8000>>,
      rotation |-> <<0, 0, 0>>, type |-> "segment",
      maxCharmSize |-> 10000, occupied |-> TRUE],
     [id |-> "left-side", position |-> <<-8000, -3000, 6000>>,
      rotation |-> <<0, 0, 0>>, type |-> "segment",
      maxCharmSize |-> 8000, occupied |-> FALSE] >>

\* the charms of demoNecklace
DemoHeart == [id |-> "heart-pendant", type |-> "pendant",
              modelPath |-> "/models/fallback/heart.gltf",
              size |-> 12000, weight |-> 3000,
              attachmentType |-> "centerpiece"]

DemoPearl == [id |-> "pearl-bead", type |-> "bead",
              modelPath |-> "/models/fallback/pearl.gltf",
              size |-> 6000, weight |-> 1000,
              attachmentType |-> "segment"]

DemoSapphire == [id |-> "sapphire-gem", type |-> "gemstone",
                 modelPath |-> "/models/fallback/sapphire.gltf",
                 size |-> 8000, weight |-> 2000,
                 attachmentType |-> "segment"]

\* an entry of demoNecklace.charms: it has no customPosition and no
\* customRotation
DemoBinding(charm, id) ==
  [charm |-> charm, attachmentPointId |-> id,
   customPosition |-> Undefined, customRotation |-> Undefined]

\* demoNecklace: the object literal Scene evaluates in each of its renders,
\* so that its attachmentPoints array is a fresh object (ref) every time
DemoNecklace(ref) ==
  [type |-> "chain", modelPath |-> "/models/fallback/chain.gltf",
   length |-> Num(8), attachmentPoints |-> DemoPoints, pointsRef |-> ref,
   charms |-> << DemoBinding(DemoHeart, "center"),
                 DemoBinding(DemoPearl, "left"),
                 DemoBinding(DemoSapphire, "right") >>]

\* createFallbackNecklace(type, length): the radius of the group and the
\* number of children it is given
CreateFallbackNecklace(type, length) ==
  [radius |-> Radius(length),
   children |-> CASE type = "chain" -> (length * 8) \div Scale
                  [] type = "cord" -> 2
                  [] type = "beaded" -> (length * 6) \div Scale
                  [] type = "wire" -> 1
                  [] OTHER -> 0]

\* createFallbackCharm(type): the geometries of the meshes of the group
CreateFallbackCharm(type) ==
  CASE type = "pendant" -> <<"ExtrudeGeometry", "TorusGeometry">>
    [] type = "bead" -> <<"SphereGeometry">>
    [] type = "gemstone" -> <<"OctahedronGeometry">>
    [] type = "ornament" -> <<"TorusKnotGeometry">>
    [] OTHER -> <<>>

\* the state of the load of a model in the cache of useGLTF; the first call
\* for a path starts the load
LoadState(cache, modelPath) ==
  IF modelPath \in DOMAIN cache THEN cache[modelPath] ELSE "idle"

\* useGLTF(modelPath) returns the scene only when the load has succeeded;
\* it throws the pending promise while the load runs and the error of the
\* load once it has failed
UseGLTFThrows(cache, modelPath) == LoadState(cache, modelPath) # "loaded"

\* the cache after useGLTF was called for each of the paths
AfterUseGLTF(cache, paths) ==
  [p \in DOMAIN cache \cup paths |->
     IF LoadState(cache, p) = "idle" THEN "pending" ELSE cache[p]]

\* NecklaceModel that lets the throw of useGLTF escape
NecklaceModelNoCatch(base, cache) ==
  IF UseGLTFThrows(cache, base.modelPath)
  THEN [type |-> "thrown", hooks |-> <<>>]
  ELSE [type |-> "primitive", object |-> base.modelPath,
        scale |-> FDiv(base.length, Num(8)),
        hooks |-> <<<<"useMemo", "scene">>,
                    <<"useMemo", "clonedScene", "base.material">>>>]

\* NecklaceModel: try { useGLTF; useMemo; useMemo; <primitive/> } catch {
\* console.warn; <NecklaceFallback/> }. hooks lists the React hooks the
\* call has made, each with the names of its dependencies
NecklaceModel(base, cache) ==
  IF UseGLTFThrows(cache, base.modelPath)
  THEN [type |-> "NecklaceFallback",
        geometry |-> CreateFallbackNecklace(base.type, base.length),
        hooks |-> <<>>]
  ELSE [type |-> "primitive", object |-> base.modelPath,
        scale |-> FDiv(base.length, Num(8)),
        hooks |-> <<<<"useMemo", "scene">>,
                    <<"useMemo", "clonedScene", "base.material">>>>]

\* CharmModel: try { useGLTF; useMemo; useMemo; <primitive/> } catch {
\* console.warn; <CharmFallback/> }
CharmModel(charm, cache) ==
  IF UseGLTFThrows(cache, charm.modelPath)
  THEN [type |-> "CharmFallback",
        geometry |-> CreateFallbackCharm(charm.type),
        hooks |-> <<>>]
  ELSE [type |-> "primitive", object |-> charm.modelPath,
        hooks |-> <<<<"useMemo", "scene">>, <<"useMemo", "clonedScene">>>>]

\* the model paths a render of the necklace nk with the children asks
\* useGLTF for: the one of the base and the one of every placed charm
ModelPaths(nk, children) ==
  {nk.modelPath} \cup
  {children[k].charm.modelPath : k \in {j \in DOMAIN children : children[j] # Null}}

\* the render of NecklaceModel and of the CharmModel of every placed charm,
\* below the render of Necklace with the prop nk
RenderModels(nk) ==
  /\ gltf' = AfterUseGLTF(gltf, ModelPaths(nk, rendered'))
  /\ models' =
       [base |-> NecklaceModel(nk, gltf),
        charms |-> [k \in DOMAIN rendered' |->
                      IF rendered'[k] = Null THEN Null
                      ELSE CharmModel(rendered'[k].charm, gltf)]]
  /\ warned' = {p \in ModelPaths(nk, rendered') : UseGLTFThrows(gltf, p)}

\* one call of the Scene function component: currentNecklace is the
\* demoNecklace of this render (App passes no selectedNecklace)
RenderScene ==
  /\ Render(DemoNecklace(NewRef(necklace.pointsRef)))
  /\ RenderModels(necklace')

\* the refs of a Charm after its mount: time = useRef(0), and the group of
\* meshRef with the position and rotation props
MountedCharm(position, rotation) ==
  [time |-> 0, rotationZ |-> rotation[3], positionY |-> position[2]]

\* the state after App has mounted Scene
InitScene ==
  /\ hoveredCharm = NullId
  /\ necklace = DemoNecklace(0)
  /\ memo = UseMemo(Undefined, <<necklace.pointsRef, necklace.length>>,
                    CalculateAttachmentPositions(necklace.attachmentPoints,
                                                 necklace.length))
  /\ error = "none"
  /\ rendered = RenderCharms(necklace.charms, memo.value)
  /\ gltf = AfterUseGLTF(<<>>, ModelPaths(necklace, rendered))
  /\ models =
       [base |-> NecklaceModel(necklace, <<>>),
        charms |-> [k \in DOMAIN rendered |->
                      IF rendered[k] = Null THEN Null
                      ELSE CharmModel(rendered[k].charm, <<>>)]]
  /\ warned = ModelPaths(necklace, rendered)
  /\ sway = [k \in {j \in DOMAIN rendered : rendered[j] # Null} |->
               MountedCharm(rendered[k].position, rendered[k].rotation)]
  /\ controls = <<>>
  /\ loader = <<>>
  /\ path = <<>>

\* the ids onCharmHover can be called with: a placed charm on pointer
\* enter, null on pointer leave
Hoverable ==
  {NullId} \cup {rendered[k].charm.id : k \in {j \in DOMAIN rendered : rendered[j] # Null}}

\* handleCharmHover: setHoveredCharm(charmId); a state that is not the
\* current one makes Scene render again
CharmHover ==
  \E charmId \in Hoverable :
    /\ charmId # hoveredCharm
    /\ hoveredCharm' = charmId
    /\ RenderScene
    /\ UNCHANGED <<sway, controls, hookVars>>

\* the load of a model ends with the scene; the promise was caught in the
\* component, so that no render follows from it
LoadSucceeded ==
  \E p \in DOMAIN gltf :
    /\ gltf[p] = "pending"
    /\ gltf' = [gltf EXCEPT ![p] = "loaded"]
    /\ UNCHANGED <<necklaceVars, hoveredCharm, models, warned, sway, controls,
                   hookVars>>

\* the load of a model ends with an error
LoadFailed ==
  \E p \in DOMAIN gltf :
    /\ gltf[p] = "pending"
    /\ gltf' = [gltf EXCEPT ![p] = "failed"]
    /\ UNCHANGED <<necklaceVars, hoveredCharm, models, warned, sway, controls,
                   hookVars>>

NextScene ==
  \/ CharmHover
  \/ LoadSucceeded
  \/ LoadFailed

SpecScene == InitScene /\ [][NextScene]_vars

\* ------------------------------------------------ the animation of a Charm
\* the animateCharms prop Scene gives Necklace, which hands it to every
\* Charm as animate
AnimateCharms == TRUE

\* the delta of a frame, in seconds: 1/60 and 1/30
Deltas == {Scale \div 60, Scale \div 30}

\* const bounceAmount = 0.01
BounceAmount == Scale \div 100

\* const swayAmount = 0.02 * charm.weight
SwayAmount(charm) == FMul(Scale \div 50, charm.weight)

\* the callback of useFrame in Charm, for the refs mesh of a mounted charm
\* with the props charm, position and animate
CharmFrame(mesh, charm, position, animate, delta) ==
  IF ~animate THEN mesh
  ELSE LET time == mesh.time + delta
       IN  [time |-> time,
            rotationZ |-> FMul(Sin(time * 2), SwayAmount(charm)),
            positionY |-> position[2] + FMul(Sin(time * 3), BounceAmount)]

\* a frame of the render loop: the useFrame callback of every mounted Charm
\* is called with the delta of the frame
Frame ==
  \E delta \in Deltas :
    /\ \A k \in DOMAIN sway : sway[k].time + delta <= Num(MaxTime)
    /\ sway' = [k \in DOMAIN sway |->
                 CharmFrame(sway[k], rendered[k].charm, rendered[k].position,
                            AnimateCharms, delta)]
    /\ UNCHANGED <<necklaceVars, sceneVars, controls, hookVars>>

NextCharm == Frame

\* the demo necklace of Scene under the render loop
SpecCharm == InitScene /\ [][NextCharm]_vars

\* ------------------------------------------------------ useCameraControls
\* CAMERA_PRESETS: the own properties of the object
CAMERA_PRESETS ==
  [key \in {"front", "three-quarter", "side", "top", "detail", "glamour",
            "floating"} |->
     CASE key = "front" ->
            [name |-> "Front View", position |-> <<0, 0, Num(4)>>,
             target |-> <<0, 0, 0>>]
       [] key = "three-quarter" ->
            [name |-> "Three Quarter", position |-> <<Num(3), Num(2), Num(3)>>,
             target |-> <<0, 0, 0>>]
       [] key = "side" ->
            [name |-> "Side Profile", position |-> <<Num(4), 0, 0>>,
             target |-> <<0, 0, 0>>]
       [] key = "top" ->
            [name |-> "Top Down", position |-> <<0, Num(5), 0>>,
             target |-> <<0, 0, 0>>]
       [] key = "detail" ->
            [name |-> "Detail Close-up", position |-> <<Num(1), Num(1), Num(2)>>,
             target |-> <<0, 0, 0>>]
       [] key = "glamour" ->
            [name |-> "Glamour Shot", position |-> <<Num(2), Num(4), Num(4)>>,
             target |-> <<0, -5000, 0>>]
       [] key = "floating" ->
            [name |-> "Floating View", position |-> <<Num(4), Num(3), Num(4)>>,
             target |-> <<0, 0, 0>>]]

\* names every object literal inherits from Object.prototype
ObjectPrototypeKeys == {"constructor", "toString", "hasOwnProperty"}

\* object[key] of an object literal: the own property, else the member
\* inherited from Object.prototype (a function, which is truthy and has no
\* position and no target), else undefined
GetProperty(object, key) ==
  IF key \in DOMAIN object THEN object[key]
  ELSE IF key \in ObjectPrototypeKeys THEN [type |-> "function", name |-> key]
  ELSE Undefined

\* the names transitionToPreset is called with
PresetNames == {"front", "glamour", "unknown", "constructor"}

\* the position and the duration transitionToPosition is called with (the
\* lookAt is left to its default [0, 0, 0])
CustomView == [position |-> <<Num(2), Num(1), Num(2)>>, duration |-> Num(1)]

\* the delta of a frame of the camera, in seconds: 0.5 and 1
CameraDeltas == {Scale \div 2, Scale}

\* new THREE.Vector3()
ZeroVector == <<0, 0, 0>>

\* Vector3.lerpVectors(v1, v2, alpha): v1 + (v2 - v1) * alpha
LerpVectors(v1, v2, alpha) ==
  [c \in 1..3 |-> v1[c] + FMul(v2[c] - v1[c], alpha)]

\* Smootherstep of the third degree that ends at 1/2
SmootherstepHalf(t) == FMul(FMul(FMul(t, t), t), Scale \div 2)

\* smootherstep: t * t * t * (t * (t * 6 - 15) + 10)
Smootherstep(t) ==
  FMul(FMul(FMul(t, t), t), FMul(t, FMul(t, Num(6)) - Num(15)) + Num(10))

\* the refs of the hook after its first render, with the camera of the
\* Canvas; console is what the last call wrote to the console or threw, and
\* transitions counts the transitions started
MountedControls ==
  [camera |-> [position |-> <<Num(3), Num(3), Num(3)>>, lookAt |-> ZeroVector],
   controlsRef |-> Null,
   isTransitioning |-> FALSE,
   targetPosition |-> ZeroVector,
   targetLookAt |-> ZeroVector,
   startPosition |-> ZeroVector,
   startLookAt |-> ZeroVector,
   transitionProgress |-> 0,
   transitionDuration |-> 15000,
   controlsState |-> [currentPreset |-> NullId, isTransitioning |-> FALSE,
                      autoRotate |-> FALSE, autoRotateSpeed |-> 5000],
   console |-> <<>>,
   transitions |-> 0]

\* StoreStart that keeps the start position of a running transition
StoreStartKept(c) ==
  [c EXCEPT !.startPosition = IF c.isTransitioning THEN c.startPosition
                              ELSE c.camera.position,
            !.startLookAt = IF c.controlsRef # Null THEN c.controlsRef.target
                            ELSE ZeroVector]

\* the first lines of transitionToPreset and of transitionToPosition: the
\* start vectors are copied from the camera and from the controls
StoreStart(c) ==
  [c EXCEPT !.startPosition = c.camera.position,
            !.startLookAt = IF c.controlsRef # Null THEN c.controlsRef.target
                            ELSE ZeroVector]

\* transitionToPreset(presetName); the spread of preset.position throws a
\* TypeError when the value found has no position
TransitionToPreset(c, presetName) ==
  LET preset == GetProperty(CAMERA_PRESETS, presetName)
  IN  IF preset = Undefined
      THEN [c EXCEPT !.console = <<"warn", presetName>>]
      ELSE IF "position" \notin DOMAIN preset
      THEN [StoreStart(c) EXCEPT !.console = <<"TypeError", presetName>>]
      ELSE [StoreStart(c) EXCEPT
              !.targetPosition = preset.position,
              !.targetLookAt = preset.target,
              !.transitionProgress = 0,
              !.isTransitioning = TRUE,
              !.controlsState.isTransitioning = TRUE,
              !.controlsState.currentPreset = presetName,
              !.console = <<"log", presetName>>,
              !.transitions = @ + 1]

\* transitionToPosition(position, lookAt, duration)
TransitionToPosition(c, position, lookAt, duration) ==
  [StoreStart(c) EXCEPT
     !.targetPosition = position,
     !.targetLookAt = lookAt,
     !.transitionDuration = duration,
     !.transitionProgress = 0,
     !.isTransitioning = TRUE,
     !.controlsState.isTransitioning = TRUE,
     !.controlsState.currentPreset = NullId,
     !.console = <<>>,
     !.transitions = @ + 1]

\* the arguments of the focusOn calls: a point above the origin, with the
\* default distance 3 and the default angle PI / 4
FocusTarget == <<0, Num(1), 0>>

FocusDistance == Num(3)

FocusAngle == PI \div 4

\* focusOn(target, distance, angle): transitionToPosition to the point at
\* the offset from the target, with the default duration 1.5
FocusOn(c, target, distance, angle) ==
  LET offset == <<FMul(Cos(angle), distance),
                  FMul(distance, Scale \div 2),
                  FMul(Sin(angle), distance)>>
      newPosition == [i \in 1..3 |-> target[i] + offset[i]]
  IN  TransitionToPosition(c, newPosition, target, (3 * Scale) \div 2)

\* toggleAutoRotate
ToggleAutoRotate(c) ==
  [c EXCEPT !.controlsState.autoRotate = ~@,
            !.console = <<"log", IF c.controlsState.autoRotate
                                   THEN "disabled" ELSE "enabled">>]

\* transitionProgress.current += delta / transitionDuration.current, and
\* the clamp to 1
AdvancedProgress(c, delta) ==
  IF c.transitionProgress + FDiv(delta, c.transitionDuration) >= Scale
  THEN Scale
  ELSE c.transitionProgress + FDiv(delta, c.transitionDuration)

\* the first block of the useFrame callback, for the progress of this frame
\* and t = smootherstep(progress): the flags, the camera and the target of
\* the controls
TransitionFrame(c, progress, t) ==
  IF ~c.isTransitioning THEN c
  ELSE [c EXCEPT
          !.transitionProgress = progress,
          !.isTransitioning = progress < Scale,
          !.controlsState.isTransitioning = IF progress < Scale THEN @
                                            ELSE FALSE,
          !.camera = [position |-> LerpVectors(c.startPosition,
                                               c.targetPosition, t),
                      lookAt |-> LerpVectors(c.startLookAt,
                                             c.targetLookAt, t)],
          !.controlsRef = IF @ = Null THEN @
                          ELSE [@ EXCEPT !.target =
                                  LerpVectors(c.startLookAt,
                                              c.targetLookAt, t)]]

\* AutoRotateFrame that does not look at the running transition
AutoRotateFrameAlways(c) ==
  IF c.controlsRef = Null THEN c
  ELSE IF c.controlsState.autoRotate
  THEN [c EXCEPT !.controlsRef.autoRotate = TRUE,
                 !.controlsRef.autoRotateSpeed = c.controlsState.autoRotateSpeed]
  ELSE [c EXCEPT !.controlsRef.autoRotate = FALSE]

\* the second block of the useFrame callback: the auto-rotation
AutoRotateFrame(c) ==
  IF c.controlsRef = Null THEN c
  ELSE IF c.controlsState.autoRotate /\ ~c.isTransitioning
  THEN [c EXCEPT !.controlsRef.autoRotate = TRUE,
                 !.controlsRef.autoRotateSpeed = c.controlsState.autoRotateSpeed]
  ELSE [c EXCEPT !.controlsRef.autoRotate = FALSE]

\* the state after the first render of a component that uses the hook
InitCamera ==
  /\ controls = MountedControls
  /\ necklace = <<>>
  /\ memo = Undefined
  /\ rendered = <<>>
  /\ error = "none"
  /\ hoveredCharm = NullId
  /\ gltf = <<>>
  /\ models = <<>>
  /\ warned = {}
  /\ sway = <<>>
  /\ loader = <<>>
  /\ path = <<>>

\* a call of the hook leaves everything outside the hook alone
OnlyControls == UNCHANGED <<necklaceVars, sceneVars, sway, hookVars>>

\* OrbitControls is mounted with orbitControlsConfig: its ref is set, its
\* target is the target prop of the hook and autoRotate is false
ControlsAttached ==
  /\ controls.controlsRef = Null
  /\ controls' = [controls EXCEPT
                    !.controlsRef = [target |-> ZeroVector,
                                     autoRotate |-> FALSE,
                                     autoRotateSpeed |-> 20000],
                    !.console = <<>>]
  /\ OnlyControls

\* a caller calls transitionToPreset
PresetRequested ==
  \E presetName \in PresetNames :
    /\ \/ controls.transitions < MaxTransitions
       \/ GetProperty(CAMERA_PRESETS, presetName) = Undefined
    /\ controls' = TransitionToPreset(controls, presetName)
    /\ OnlyControls

\* a caller calls transitionToPosition
PositionRequested ==
  /\ controls.transitions < MaxTransitions
  /\ controls' = TransitionToPosition(controls, CustomView.position,
                                      ZeroVector, CustomView.duration)
  /\ OnlyControls

\* a caller calls focusOn
FocusRequested ==
  /\ controls.transitions < MaxTransitions
  /\ controls' = FocusOn(controls, FocusTarget, FocusDistance, FocusAngle)
  /\ OnlyControls

\* a caller calls toggleAutoRotate
AutoRotateToggled ==
  /\ controls' = ToggleAutoRotate(controls)
  /\ OnlyControls

\* the render loop calls the useFrame callback: the transition block with
\* the progress and the t of this frame, then the auto-rotation block
FrameArrived ==
  \E delta \in CameraDeltas :
    \E progress \in {AdvancedProgress(controls, delta)} :
      \E t \in {Smootherstep(progress)} :
        \E moved \in {TransitionFrame(controls, progress, t)} :
          /\ controls' = [AutoRotateFrame(moved) EXCEPT !.console = <<>>]
          /\ OnlyControls

NextCamera ==
  \/ ControlsAttached
  \/ PresetRequested
  \/ PositionRequested
  \/ FocusRequested
  \/ AutoRotateToggled
  \/ FrameArrived

SpecCamera == InitCamera /\ [][NextCamera]_vars

\* the render loop of the Canvas calls the callback on every animation
\* frame, for as long as the component is mounted
SpecCameraFair == SpecCamera /\ WF_vars(FrameArrived)

\* ---------------------------------------------------- useNecklaceLoader
\* the model paths the component that calls the hook is rendered with
LoaderPaths ==
  {"/models/necklaces/gold.gltf", "/models/necklaces/silver.gltf",
   "/models/charms/heart.gltf"}

\* { model: null, isLoading: true, error: null }
LoadingState == [model |-> Null, isLoading |-> TRUE, error |-> NullId]

\* the message of the Error the load of modelPath is rejected with
FailureMessage(modelPath) == "Could not load " \o modelPath

\* useGLTF(modelPath): the gltf of a load that has succeeded or else the
\* value it throws, the promise of a load that runs or the Error of a load
\* that has failed; the cache gives the same object at every call
UseGLTF(cache, modelPath) ==
  CASE LoadState(cache, modelPath) = "loaded" ->
         [kind |-> "gltf", modelPath |-> modelPath]
    [] LoadState(cache, modelPath) = "failed" ->
         [kind |-> "Error", modelPath |-> modelPath,
          message |-> FailureMessage(modelPath)]
    [] OTHER ->
         [kind |-> "Promise", modelPath |-> modelPath]

\* the cells of the hooks before the first render: the state of useState
\* and no dependencies stored for the two effects
UseStateInitial ==
  [state |-> LoadingState, pathDeps |-> Undefined, gltfDeps |-> Undefined,
   hooks |-> <<>>]

\* the state the effect of the third slot sets: the one of the try block
\* for a gltf, the one of the catch block for a thrown value
SettledState(result) ==
  IF result.kind = "gltf"
  THEN [model |-> result, isLoading |-> FALSE, error |-> NullId]
  ELSE [model |-> Null, isLoading |-> FALSE,
        error |-> IF result.kind = "Error" THEN result.message
                  ELSE "Failed to load model"]

\* one render of useNecklaceLoader with the cells l, followed by its
\* effects in the order of their slots: the effect of [modelPath] sets the
\* loading state when the path is not the one of the render before, then
\* the effect of the third slot, [gltf] in the try block and [error] in the
\* catch block, sets the settled state when the value is not the one of the
\* render before. The state set last is the one of the render that follows
UseNecklaceLoader(l, modelPath, cache) ==
  LET result == UseGLTF(cache, modelPath)
      afterReset == IF l.pathDeps # <<modelPath>> THEN LoadingState
                    ELSE l.state
  IN  [state |-> IF l.gltfDeps # <<result>> THEN SettledState(result)
                 ELSE afterReset,
       pathDeps |-> <<modelPath>>,
       gltfDeps |-> <<result>>,
       hooks |-> <<<<"useState">>, <<"useEffect", "modelPath">>,
                   IF result.kind = "gltf" THEN <<"useEffect", "gltf">>
                   ELSE <<"useEffect", "error">>>>]

\* the state after the mount of a component that calls the hook, with
\* nothing loaded before
InitLoader ==
  /\ \E modelPath \in LoaderPaths :
       /\ loader = UseNecklaceLoader(UseStateInitial, modelPath, <<>>)
       /\ gltf = AfterUseGLTF(<<>>, {modelPath})
  /\ path = <<>>
  /\ necklace = <<>>
  /\ memo = Undefined
  /\ rendered = <<>>
  /\ error = "none"
  /\ hoveredCharm = NullId
  /\ models = <<>>
  /\ warned = {}
  /\ sway = <<>>
  /\ controls = <<>>

\* the component is rendered again, with the same path or with another one
LoaderRendered ==
  \E modelPath \in LoaderPaths :
    /\ loader' = UseNecklaceLoader(loader, modelPath, gltf)
    /\ gltf' = AfterUseGLTF(gltf, {modelPath})
    /\ UNCHANGED <<necklaceVars, hoveredCharm, models, warned, sway, controls,
                   path>>

\* preloadNecklaceModel(modelPath): useGLTF.preload starts the load of a
\* path that is not in the cache
Preloaded ==
  \E modelPath \in LoaderPaths :
    /\ LoadState(gltf, modelPath) = "idle"
    /\ gltf' = AfterUseGLTF(gltf, {modelPath})
    /\ UNCHANGED <<necklaceVars, hoveredCharm, models, warned, sway, controls,
                   hookVars>>

NextLoader ==
  \/ LoaderRendered
  \/ Preloaded
  \/ LoadSucceeded
  \/ LoadFailed

SpecLoader == InitLoader /\ [][NextLoader]_vars

\* ---------------------------------------------------------- getModelPath
\* the pieces of the model paths
Segments ==
  {"/models/", "models/", "/assets/", "necklaces/", "fallback/", "chain.gltf"}

RECURSIVE Concat(_)
\* the string made of the pieces of the list, in their order
Concat(pieces) ==
  IF pieces = <<>> THEN "" ELSE Head(pieces) \o Concat(Tail(pieces))

\* the model paths getModelPath is called with; the empty one is among them
ModelPathInputs == {Concat(pieces) : pieces \in SeqsUpTo(Segments, MaxSegments)}

\* the values of the type parameter: 'necklace' | 'charm'
ModelTypes == {"necklace", "charm"}

\* String.prototype.startsWith
StartsWith(string, searchString) ==
  /\ Len(string) >= Len(searchString)
  /\ SubSeq(string, 1, Len(searchString)) = searchString

\* the switch on type of getModelPath
FallbackPath(type) ==
  CASE type = "necklace" -> "/models/fallback/chain.gltf"
    [] type = "charm" -> "/models/fallback/charm.gltf"
    [] OTHER -> "/models/fallback/default.gltf"

\* GetModelPath with the condition !modelPath alone
GetModelPathEmptyOnly(modelPath, type) ==
  IF modelPath = "" THEN FallbackPath(type) ELSE modelPath

\* getModelPath(modelPath, type); !modelPath holds of the empty string only
GetModelPath(modelPath, type) ==
  IF modelPath = "" \/ StartsWith(modelPath, "/models/")
  THEN FallbackPath(type)
  ELSE modelPath

\* the arguments of a call of getModelPath that is to come
InitPath ==
  /\ \E modelPath \in ModelPathInputs, type \in ModelTypes :
       path = [modelPath |-> modelPath, type |-> type, results |-> <<>>]
  /\ loader = <<>>
  /\ necklace = <<>>
  /\ memo = Undefined
  /\ rendered = <<>>
  /\ error = "none"
  /\ hoveredCharm = NullId
  /\ gltf = <<>>
  /\ models = <<>>
  /\ warned = {}
  /\ sway = <<>>
  /\ controls = <<>>

\* getModelPath is called with the arguments, and then with its own result
\* and the same type
GetModelPathCalled ==
  /\ Len(path.results) < MaxCalls
  /\ \E modelPath \in {IF path.results = <<>> THEN path.modelPath
                       ELSE path.results[Len(path.results)]} :
       path' = [path EXCEPT
                  !.results = Append(@, GetModelPath(modelPath, path.type))]
  /\ UNCHANGED <<necklaceVars, sceneVars, sway, controls, loader>>

NextPath == GetModelPathCalled

SpecPath == InitPath /\ [][NextPath]_vars

\* ------------------------------------------------------------ properties
\* the points of the last render and the bindings of the last render
Points == necklace.attachmentPoints

Charms == necklace.charms

\* the binding at k names the id of some attachment point of the base
Matched(k) == \E j \in 1..Len(Points) : Points[j].id = Charms[k].attachmentPointId

\* the lowest position in the base of a point with the id the binding at k names
PointIndex(k) ==
  CHOOSE j \in 1..Len(Points) :
    /\ Points[j].id = Charms[k].attachmentPointId
    /\ \A i \in 1..(j - 1) : Points[i].id # Charms[k].attachmentPointId

\* C1: for every binding that matches an attachment point, the placement has
\* position = customPosition when present and otherwise the computed position
\* of the matched point, and rotation = customRotation when present and
\* otherwise the computed rotation of the matched point; the two choices are
\* independent of each other.
C1_PlacementResolution ==
  \A k \in 1..Len(Charms) :
    Matched(k) =>
      /\ k \in DOMAIN rendered
      /\ rendered[k].type = "Charm"
      /\ rendered[k].position =
           IF Charms[k].customPosition # Undefined
           THEN Charms[k].customPosition
           ELSE memo.value[PointIndex(k)].calculatedPosition
      /\ rendered[k].rotation =
           IF Charms[k].customRotation # Undefined
           THEN Charms[k].customRotation
           ELSE memo.value[PointIndex(k)].calculatedRotation

\* a render placed a charm that overrides only its position and a charm that
\* overrides only its rotation
C1_Witness ==
  /\ \E k \in 1..Len(Charms) :
       /\ Matched(k)
       /\ Charms[k].customPosition # Undefined
       /\ Charms[k].customRotation = Undefined
       /\ rendered[k].position = CustomPos
       /\ rendered[k].rotation = memo.value[PointIndex(k)].calculatedRotation
  /\ \E k \in 1..Len(Charms) :
       /\ Matched(k)
       /\ Charms[k].customPosition = Undefined
       /\ Charms[k].customRotation # Undefined
       /\ rendered[k].rotation = CustomRot
       /\ rendered[k].position = memo.value[PointIndex(k)].calculatedPosition

\* C2: with a non-empty list of attachment points, a binding whose id is the
\* id of no point gives a skipped (null) slot and no error, and the other
\* bindings of the necklace are still resolved.
C2_DanglingSkipped ==
  Len(Points) > 0 =>
    /\ error = "none"
    /\ Len(rendered) = Len(Charms)
    /\ \A k \in 1..Len(Charms) :
         IF Matched(k) THEN rendered[k].type = "Charm" ELSE rendered[k] = Null

\* a render of a base with points met a dangling binding next to a matching one
C2_Witness ==
  /\ Len(Points) > 0
  /\ \E k, m \in 1..Len(Charms) :
       /\ ~Matched(k) /\ rendered[k] = Null
       /\ Matched(m) /\ rendered[m].type = "Charm"

\* C3: with zero attachment points no point transform is computed and every
\* binding is unresolved: no charm is placed and no error is raised.
C3_NoPoints ==
  Len(Points) = 0 =>
    /\ memo.value = <<>>
    /\ error = "none"
    /\ Len(rendered) = Len(Charms)
    /\ \A k \in 1..Len(rendered) : rendered[k] = Null

\* a base without points was rendered with a full list of bindings, one of
\* which carries both overrides
C3_Witness ==
  /\ Len(Points) = 0
  /\ Len(Charms) = MaxCharms
  /\ \E k \in 1..Len(Charms) :
       Charms[k].customPosition # Undefined /\ Charms[k].customRotation # Undefined
  /\ \A k \in 1..Len(rendered) : rendered[k] = Null

\* C4: M bindings give exactly M slots; slot k is either null or the
\* placement of the k-th binding (its charm, its index in the key, its
\* overrides or the transform of the point it names): the outputs follow the
\* order of the bindings, not the order of the attachment points.
C4_OutputOrder ==
  /\ Len(rendered) = Len(Charms)
  /\ \A k \in 1..Len(rendered) :
       \/ rendered[k] = Null
       \/ /\ rendered[k].type = "Charm"
          /\ rendered[k].key = <<Charms[k].charm.id, k - 1>>
          /\ rendered[k].charm = Charms[k].charm
          /\ rendered[k].position \in
               ({Charms[k].customPosition} \ {Undefined}) \cup
               {memo.value[j].calculatedPosition : j \in
                  {i \in 1..Len(Points) : Points[i].id = Charms[k].attachmentPointId}}
          /\ rendered[k].rotation \in
               ({Charms[k].customRotation} \ {Undefined}) \cup
               {memo.value[j].calculatedRotation : j \in
                  {i \in 1..Len(Points) : Points[i].id = Charms[k].attachmentPointId}}

\* two bindings were resolved that name their points in the order opposite
\* to the order of the points in the base
C4_Witness ==
  /\ Len(Charms) >= 2
  /\ Matched(1) /\ Matched(2)
  /\ PointIndex(1) > PointIndex(2)
  /\ rendered[1].type = "Charm" /\ rendered[2].type = "Charm"
  /\ rendered[1].position # rendered[2].position

\* the statement of C5 as written: a binding with both overrides is placed
\* at its overrides, whatever the points of the base
C5_Original ==
  \A k \in 1..Len(Charms) :
    (Charms[k].customPosition # Undefined /\ Charms[k].customRotation # Undefined)
      => /\ k \in DOMAIN rendered
         /\ rendered[k] # Null
         /\ rendered[k].position = Charms[k].customPosition
         /\ rendered[k].rotation = Charms[k].customRotation

\* C5 (amended): a binding with both overrides that names an attachment
\* point of the base is placed at its overrides verbatim, and nothing of the
\* computed transform of that point shows in the placement, whatever the
\* length, the number of points and the index of the point.
C5_BothOverrides ==
  \A k \in 1..Len(Charms) :
    (/\ Charms[k].customPosition # Undefined
     /\ Charms[k].customRotation # Undefined
     /\ Matched(k))
      => /\ k \in DOMAIN rendered
         /\ rendered[k] # Null
         /\ rendered[k].position = CustomPos
         /\ rendered[k].rotation = CustomRot

\* a binding with both overrides was placed on a point that is not the first
\* of its base
C5_Witness ==
  \E k \in 1..Len(Charms) :
    /\ Charms[k].customPosition # Undefined
    /\ Charms[k].customRotation # Undefined
    /\ Matched(k)
    /\ PointIndex(k) > 1
    /\ rendered[k].position = CustomPos
    /\ rendered[k].rotation = CustomRot

\* C6: a binding without override that names an attachment point is placed
\* exactly at the transform computed for the index i of that point among the
\* N points of the base: (cos(a) * r, y, sin(a) * r) and (0, a, 0) with
\* a = (i / N) * 2 PI and r = length / (2 PI).
C6_NoOverride ==
  \A k \in 1..Len(Charms) :
    (/\ Charms[k].customPosition = Undefined
     /\ Charms[k].customRotation = Undefined
     /\ Matched(k))
      => LET i == PointIndex(k) - 1
             a == Angle(i, Len(Points))
             r == Radius(necklace.length)
         IN  /\ k \in DOMAIN rendered
             /\ rendered[k] # Null
             /\ rendered[k].position = <<FMul(Cos(a), r), YOffset, FMul(Sin(a), r)>>
             /\ rendered[k].rotation = <<0, a, 0>>

\* a binding without override was placed on a point of index > 0
C6_Witness ==
  \E k \in 1..Len(Charms) :
    /\ Charms[k].customPosition = Undefined
    /\ Charms[k].customRotation = Undefined
    /\ Matched(k)
    /\ PointIndex(k) > 1
    /\ rendered[k].rotation = <<0, Angle(PointIndex(k) - 1, Len(Points)), 0>>
    /\ rendered[k].rotation[2] > 0

\* the angle given to the point at position k of the layout (its yaw)
AngleOf(k) == memo.value[k].calculatedRotation[2]

\* the angle from the point at position k to the next one, the first point
\* following the last one after a full turn
Spacing(k) ==
  IF k < Len(memo.value) THEN AngleOf(k + 1) - AngleOf(k)
  ELSE TwoPi - AngleOf(k) + AngleOf(1)

\* the rounding error allowed on an angle and on a coordinate: 0.001
Tolerance == Scale \div 1000

\* the statement of C7 as written: the point of index 0 is at angle 0, the
\* angles increase strictly and stay below a full turn, and every spacing is
\* exactly 2 PI / N
C7_Original ==
  Len(Points) >= 1 =>
    /\ Len(memo.value) = Len(Points)
    /\ AngleOf(1) = 0
    /\ \A k \in 1..Len(memo.value) :
         /\ AngleOf(k) < TwoPi
         /\ k > 1 => AngleOf(k - 1) < AngleOf(k)
         /\ Spacing(k) = FDiv(TwoPi, Num(Len(Points)))

\* C7 (amended): the point of index 0 is at angle 0, the angles increase
\* strictly and stay below a full turn, and every spacing, the one from the
\* last point back to the first included, is 2 PI / N up to the rounding of
\* the arithmetic.
C7_AngularSpacing ==
  Len(Points) >= 1 =>
    /\ Len(memo.value) = Len(Points)
    /\ AngleOf(1) = 0
    /\ \A k \in 1..Len(memo.value) :
         /\ AngleOf(k) < TwoPi
         /\ k > 1 => AngleOf(k - 1) < AngleOf(k)
         /\ Abs(Spacing(k) - FDiv(TwoPi, Num(Len(Points)))) <= Tolerance

\* a layout of three points, whose spacing is not a representable number
C7_Witness ==
  /\ Len(Points) = 3
  /\ Len(memo.value) = 3
  /\ AngleOf(2) > 0
  /\ Spacing(3) > 0

\* C8: the transform of the point of index i is the position
\* (cos(a_i) * r, -0.5, sin(a_i) * r) with r = length / (2 PI) and the
\* rotation (0, a_i, 0): the same y for every point, yaw only.
C8_PointTransform ==
  /\ Len(memo.value) = Len(Points)
  /\ \A k \in 1..Len(memo.value) :
       LET a == FMul(FMul(FDiv(Num(k - 1), Num(Len(Points))), PI), Num(2))
           r == FDiv(necklace.length, TwoPi)
           p == memo.value[k].calculatedPosition
           q == memo.value[k].calculatedRotation
       IN  /\ p[1] = FMul(Cos(a), r)
           /\ p[2] = -(Num(1) \div 2)
           /\ p[3] = FMul(Sin(a), r)
           /\ q = <<0, a, 0>>

\* a layout with a point in each half of the loop, for the demo length
C8_Witness ==
  /\ necklace.length = Num(8)
  /\ Len(memo.value) >= 3
  /\ \E k \in 1..Len(memo.value) : memo.value[k].calculatedPosition[3] > 0
  /\ \E k \in 1..Len(memo.value) : memo.value[k].calculatedPosition[3] < -Tolerance
  /\ \A k \in 1..Len(memo.value) : memo.value[k].calculatedPosition[2] = YOffset

\* C9: every computed position lies at the distance length / (2 PI) from the
\* loop center (0, y, 0), up to the rounding of the arithmetic.
C9_OnCircle ==
  \A k \in 1..Len(memo.value) :
    LET r == FDiv(necklace.length, TwoPi)
        p == memo.value[k].calculatedPosition
        d2 == p[1] * p[1] + (p[2] - YOffset) * (p[2] - YOffset) + p[3] * p[3]
    IN  /\ (r - Tolerance) * (r - Tolerance) <= d2
        /\ d2 <= (r + Tolerance) * (r + Tolerance)

\* a layout of three points or more with a point off the axes
C9_Witness ==
  /\ Len(memo.value) >= 3
  /\ \E k \in 1..Len(memo.value) :
       /\ Abs(memo.value[k].calculatedPosition[1]) > Tolerance
       /\ Abs(memo.value[k].calculatedPosition[3]) > Tolerance

\* the vectors u and v agree up to the rounding of the arithmetic
Near(u, v) == \A c \in 1..3 : Abs(u[c] - v[c]) <= Tolerance

\* C10: a base of length 2 PI with 4 points has its points, in index order,
\* at (1, y, 0), (0, y, 1), (-1, y, 0), (0, y, -1), up to the rounding of the
\* arithmetic, with y the fixed constant.
C10_UnitCircleOfFour ==
  (necklace.length = TwoPi /\ Len(Points) = 4) =>
    /\ Len(memo.value) = 4
    /\ Near(memo.value[1].calculatedPosition, <<Num(1), YOffset, 0>>)
    /\ Near(memo.value[2].calculatedPosition, <<0, YOffset, Num(1)>>)
    /\ Near(memo.value[3].calculatedPosition, <<-Num(1), YOffset, 0>>)
    /\ Near(memo.value[4].calculatedPosition, <<0, YOffset, -Num(1)>>)
    /\ \A k \in 1..4 : memo.value[k].calculatedPosition[2] = YOffset

\* the layout of 4 points of a base of length 2 PI was computed
C10_Witness ==
  /\ necklace.length = TwoPi
  /\ Len(Points) = 4
  /\ Len(memo.value) = 4
  /\ memo.deps = <<necklace.pointsRef, TwoPi>>

\* ------------------------------------------------- properties of the Scene
\* the statement of C11 as written: the demo necklace has a base of length 8
\* with exactly 2 attachment points, the point of index 0 at angle 0 at
\* (radius, y, 0) and the point of index 1 at angle PI at (-radius, y, 0),
\* with radius = 8 / (2 PI)
C11_Original ==
  /\ necklace.length = Num(8)
  /\ Len(Points) = 2
  /\ Len(memo.value) = 2
  /\ Near(memo.value[1].calculatedPosition, <<Radius(Num(8)), YOffset, 0>>)
  /\ Near(memo.value[2].calculatedPosition, <<-Radius(Num(8)), YOffset, 0>>)
  /\ Near(memo.value[1].calculatedRotation, <<0, 0, 0>>)
  /\ Near(memo.value[2].calculatedRotation, <<0, PI, 0>>)

\* C11: the demo necklace has a base of length 8 with exactly 4 attachment
\* points; with radius = 8 / (2 PI), about 1.273, they are laid out in index
\* order at angle 0 at (radius, y, 0), a quarter turn at (0, y, radius), a
\* half turn (PI) at (-radius, y, 0) and three quarters of a turn at
\* (0, y, -radius), up to the rounding of the arithmetic.
C11_DemoLayout ==
  /\ necklace.length = Num(8)
  /\ Len(Points) = 4
  /\ Len(memo.value) = 4
  /\ Abs(Radius(necklace.length) - 12730) <= Tolerance
  /\ \A k \in 1..4 :
       /\ Near(memo.value[k].calculatedRotation, <<0, (k - 1) * HalfPi, 0>>)
       /\ memo.value[k].id = DemoPoints[k].id
  /\ Near(memo.value[1].calculatedPosition, <<Radius(Num(8)), YOffset, 0>>)
  /\ Near(memo.value[2].calculatedPosition, <<0, YOffset, Radius(Num(8))>>)
  /\ Near(memo.value[3].calculatedPosition, <<-Radius(Num(8)), YOffset, 0>>)
  /\ Near(memo.value[4].calculatedPosition, <<0, YOffset, -Radius(Num(8))>>)

\* Scene has rendered the demo necklace again and its three charms are placed
C11_Witness ==
  /\ necklace = DemoNecklace(1)
  /\ memo.deps = <<1, Num(8)>>
  /\ Len(rendered) = 3
  /\ \A k \in 1..3 : rendered[k].type = "Charm"

\* ------------------------------------------- properties of the memoization
\* the inputs of the two renders of a step are equal: same length, equal
\* attachment points and equal bindings (the arrays may be other objects)
EqualInputs ==
  /\ necklace'.length = necklace.length
  /\ necklace'.attachmentPoints = necklace.attachmentPoints
  /\ necklace'.charms = necklace.charms

Hints ==
  { [position |-> <<0, 0, 0>>, rotation |-> <<0, 0, 0>>],
    [position |-> <<30000, 20000, -10000>>, rotation |-> <<0, PI, 0>>] }

\* the attachment points of the last render with the hints of the point at
\* position j replaced by hint (of every point when j = 0)
WithHints(j, hint) ==
  [k \in 1..Len(Points) |->
     IF j = 0 \/ j = k
     THEN [Points[k] EXCEPT !.position = hint.position,
                            !.rotation = hint.rotation]
     ELSE Points[k]]

\* C13: the declared position and rotation hints of the attachment points
\* never influence a placement: the base of the last render with other
\* hints on one of its points, or on all of them, and everything else equal
\* gives the placements of the last render.
C13_HintsIgnored ==
  error = "none" =>
    \A j \in 0..Len(Points) : \A hint \in Hints :
      RenderCharms(Charms,
                   CalculateAttachmentPositions(WithHints(j, hint),
                                                necklace.length)) = rendered

\* a charm is placed on a point at a computed position and rotation that
\* are not the declared ones of the point
C13_Witness ==
  \E k \in 1..Len(Charms) :
    /\ Matched(k)
    /\ Charms[k].customPosition = Undefined
    /\ Charms[k].customRotation = Undefined
    /\ rendered[k].position # Points[PointIndex(k)].position
    /\ rendered[k].rotation # Points[PointIndex(k)].rotation

\* the placement at k stands at the transform computed for its point, as far
\* as the binding does not override it
AtComputed(k) ==
  /\ rendered[k].type = "Charm"
  /\ Charms[k].customPosition = Undefined =>
       rendered[k].position = memo.value[PointIndex(k)].calculatedPosition
  /\ Charms[k].customRotation = Undefined =>
       rendered[k].rotation = memo.value[PointIndex(k)].calculatedRotation

\* C14: the resolver checks neither capacity nor occupancy nor
\* compatibility: a binding that matches a point is resolved at the
\* transform computed for the point, whatever the occupied flag of the
\* point, the size of the charm against maxCharmSize and the attachmentType
\* of the charm against the type of the point; bindings that name the same
\* point are all resolved, and those without an override stand at one and
\* the same position and rotation.
C14_NoChecks ==
  error = "none" =>
    /\ \A k \in 1..Len(Charms) : Matched(k) => AtComputed(k)
    /\ \A k, m \in 1..Len(Charms) :
         (/\ Matched(k)
          /\ Charms[m].attachmentPointId = Charms[k].attachmentPointId) =>
           /\ (Charms[k].customPosition = Undefined /\
               Charms[m].customPosition = Undefined) =>
                rendered[k].position = rendered[m].position
           /\ (Charms[k].customRotation = Undefined /\
               Charms[m].customRotation = Undefined) =>
                rendered[k].rotation = rendered[m].rotation

\* two bindings of a charm name the same point, which is too small for the
\* charm and of another attachment type, and both are placed at the position
\* computed for it; the base also has an occupied point
C14_Witness ==
  /\ Len(Charms) = 2
  /\ Charms[1].attachmentPointId = Charms[2].attachmentPointId
  /\ Matched(1)
  /\ Charms[1].charm.size > Points[PointIndex(1)].maxCharmSize
  /\ Charms[1].charm.attachmentType # Points[PointIndex(1)].type
  /\ Charms[1].customPosition = Undefined
  /\ Charms[2].customPosition = Undefined
  /\ rendered[1].type = "Charm"
  /\ rendered[2].type = "Charm"
  /\ rendered[1].position = rendered[2].position
  /\ \E j \in 1..Len(Points) : Points[j].occupied

\* C15: the memoization is an optimization only: after any sequence of
\* renders that replace the length or the list of attachment points, the
\* layout a render resolves the bindings against is the one a fresh
\* computation gives for the length and the points of that render.
C15_NeverStale ==
  /\ memo.deps = <<necklace.pointsRef, necklace.length>>
  /\ memo.value = CalculateAttachmentPositions(Points, necklace.length)
  /\ error = "none" =>
       rendered = RenderCharms(Charms,
                    CalculateAttachmentPositions(Points, necklace.length))

\* a charm is placed on a base of three points or more whose array is not
\* the one of the first render and whose length is 3
C15_Witness ==
  /\ necklace.length = Num(3)
  /\ necklace.pointsRef = 1
  /\ Len(Points) >= 3
  /\ Len(memo.value) = Len(Points)
  /\ \E k \in 1..Len(rendered) : rendered[k].type = "Charm"

\* useMemo ran the layout computation in the step: the cell holds the
\* dependencies of this render, which are not those it held before
Recomputed == memo' # memo

\* C16: when Necklace renders again and neither the length nor the
\* attachment points of the base changed since the previous render, the
\* layout computed before is reused and not computed again; so it is for the
\* demo necklace across the renders of Scene that a hover change causes.
C16_LayoutReused ==
  [][(/\ necklace'.length = necklace.length
      /\ necklace'.attachmentPoints = necklace.attachmentPoints)
     => ~Recomputed]_vars

\* the positions in rendered of the charms that are placed
Placed == {k \in DOMAIN rendered : rendered[k] # Null}

\* C17: when the load of the model of the base or of a charm has failed, the
\* procedural fallback of the type of the base, built from the length of the
\* base, or of the category of the charm is what is rendered in its place,
\* and console.warn was called for its path in the last render; a failed
\* load is never started again; and the charms stay placed at their
\* resolved transforms.
C17_FallbackOnFailure ==
  /\ [](/\ LoadState(gltf, necklace.modelPath) = "failed" =>
             /\ models.base.type = "NecklaceFallback"
             /\ models.base.geometry.radius = Radius(necklace.length)
             /\ models.base.geometry.children = (necklace.length * 8) \div Scale
             /\ necklace.modelPath \in warned
        /\ \A k \in Placed :
             LoadState(gltf, rendered[k].charm.modelPath) = "failed" =>
               /\ models.charms[k].type = "CharmFallback"
               /\ models.charms[k].geometry =
                    CreateFallbackCharm(necklace.charms[k].charm.type)
               /\ rendered[k].charm.modelPath \in warned
        /\ (\E p \in DOMAIN gltf : gltf[p] = "failed") =>
             /\ error = "none"
             /\ Len(rendered) = Len(Charms)
             /\ \A k \in 1..Len(Charms) : Matched(k) /\ AtComputed(k))
  /\ [][\A p \in DOMAIN gltf :
          gltf[p] = "failed" => (p \in DOMAIN gltf' /\ gltf'[p] = "failed")]_vars

\* the loads of the model of the base and of the model of a charm have
\* failed, and Scene was rendered again since it was mounted
C17_Witness ==
  /\ gltf[necklace.modelPath] = "failed"
  /\ gltf[DemoHeart.modelPath] = "failed"
  /\ models.base.type = "NecklaceFallback"
  /\ models.charms[1].type = "CharmFallback"
  /\ hoveredCharm = "pearl-bead"
  /\ rendered[1].type = "Charm"

\* ---------------------------------------------- properties of the animation
\* C18: heavier charms sway less: of two charms animated by the same frames,
\* the lighter one has a rotation about z at least as large as that of the
\* heavier one (the amplitude of the sway does not increase with the weight).
C18_HeavierSwaysLess ==
  \A k, m \in DOMAIN sway :
    rendered[k].charm.weight < rendered[m].charm.weight =>
      Abs(sway[k].rotationZ) >= Abs(sway[m].rotationZ)

\* ------------------------------------------------ properties of the camera
\* the step is a frame that advances a running transition (a call that
\* starts a transition sets the progress to 0)
TransitionStep ==
  /\ controls.isTransitioning
  /\ controls'.transitionProgress > controls.transitionProgress

C20_UnknownPresetIgnored ==
  [][\A presetName \in PresetNames \ DOMAIN CAMERA_PRESETS :
       (/\ Len(controls'.console) = 2
        /\ controls'.console[2] = presetName) =>
         /\ controls'.console[1] = "warn"
         /\ controls' = [controls EXCEPT !.console = controls'.console]]_vars

\* C21: auto-rotation is applied only when it is enabled and never during a
\* transition: right after every frame callback with the controls attached,
\* the autoRotate flag of the controls is true exactly when auto-rotate is
\* toggled on and no transition runs (so it is already true on the frame
\* that completes a transition with auto-rotate on); and toggleAutoRotate
\* applied twice restores the setting.
C21_AutoRotateGated ==
  /\ [][(FrameArrived /\ controls.controlsRef # Null) =>
          /\ controls'.controlsRef # Null
          /\ controls'.controlsRef.autoRotate =
               (controls'.controlsState.autoRotate /\ ~controls'.isTransitioning)
          /\ controls'.controlsState.autoRotate = controls.controlsState.autoRotate
          /\ (controls.isTransitioning /\ ~controls'.isTransitioning) =>
               controls'.controlsRef.autoRotate = controls.controlsState.autoRotate]_vars
  /\ [](ToggleAutoRotate(ToggleAutoRotate(controls)).controlsState
          = controls.controlsState)

\* a transition has completed with auto-rotate on and the controls attached:
\* the flag of the controls is set and the camera stands at the target
C21_Witness ==
  /\ controls.controlsRef # Null
  /\ controls.controlsRef.autoRotate
  /\ controls.controlsState.autoRotate
  /\ controls.transitions >= 1
  /\ ~controls.isTransitioning
  /\ controls.transitionProgress = Scale
  /\ controls.camera.position = controls.targetPosition
  /\ controls.console = <<>>

\* the presets that transitionToPreset finds with a position
KnownPresets ==
  {presetName \in PresetNames :
     /\ GetProperty(CAMERA_PRESETS, presetName) # Undefined
     /\ "position" \in DOMAIN GetProperty(CAMERA_PRESETS, presetName)}

\* a transition is started while another one runs and it starts afresh
\* from where the camera stands
Restarted ==
  /\ controls.isTransitioning
  /\ controls'.transitions = controls.transitions + 1
  /\ controls'.transitionProgress = 0
  /\ controls'.startPosition = controls.camera.position
  /\ controls'.camera = controls.camera
  /\ controls'.isTransitioning
  /\ controls'.controlsState.isTransitioning

\* C22: a transition started while another one runs abandons the old one:
\* the progress restarts at 0, the start position is the position of the
\* camera at the call, isTransitioning stays true, and currentPreset is the
\* name given to transitionToPreset, and null after transitionToPosition
\* and after focusOn.
C22_RestartAbandons ==
  /\ [][\A presetName \in KnownPresets :
          (controls.isTransitioning
             /\ controls' = TransitionToPreset(controls, presetName)) =>
            /\ Restarted
            /\ controls'.targetPosition = CAMERA_PRESETS[presetName].position
            /\ controls'.controlsState.currentPreset = presetName]_vars
  /\ [][(controls.isTransitioning /\ (PositionRequested \/ FocusRequested)) =>
          /\ Restarted
          /\ controls'.controlsState.currentPreset = NullId]_vars

\* a transition to a preset was started half-way through another one: the
\* start position is neither the old start nor the old target
C22_Witness ==
  /\ controls.transitions = 2
  /\ controls.isTransitioning
  /\ controls.transitionProgress = 0
  /\ controls.controlsState.currentPreset = "glamour"
  /\ controls.startPosition = controls.camera.position
  /\ controls.startPosition # <<Num(3), Num(3), Num(3)>>
  /\ \A presetName \in KnownPresets :
       controls.startPosition # CAMERA_PRESETS[presetName].position
  /\ controls.startPosition # CustomView.position
  /\ controls.startPosition # FocusOn(controls, FocusTarget, FocusDistance,
                                      FocusAngle).targetPosition

\* the binding at k carries both overrides
Overridden(k) ==
  /\ Charms[k].customPosition # Undefined
  /\ Charms[k].customRotation # Undefined

\* C25: the overrides never rescue a dangling reference: a binding whose id
\* is the id of no point is dropped, also when it carries both
\* customPosition and customRotation, and every binding of a base with zero
\* points is dropped.
C25_OverridesNeverRescue ==
  /\ DOMAIN rendered = DOMAIN Charms
  /\ \A k \in 1..Len(Charms) :
       (Overridden(k) /\ ~Matched(k)) => rendered[k] = Null
  /\ \A k \in 1..Len(Charms) :
       rendered[k] # Null => Matched(k)
  /\ Len(Points) = 0 => Placed = {}

\* a binding with both overrides that names no point of a base with points
\* was dropped next to a binding that was placed
C25_Witness ==
  /\ Len(Points) > 0
  /\ \E k, m \in 1..Len(Charms) :
       /\ Overridden(k)
       /\ ~Matched(k)
       /\ rendered[k] = Null
       /\ m \in Placed

\* the positions in the base of the points that share their id with a point
\* before them
Shadowed ==
  {j \in 1..Len(Points) : \E i \in 1..(j - 1) : Points[i].id = Points[j].id}

\* C26: when several points share an id, every binding that names the id is
\* resolved at the transform computed for the point of lowest index with
\* the id; the points of higher index with the id keep their own slot of
\* the angular spacing and never receive a charm.
C26_DuplicateIds ==
  /\ \A k \in 1..Len(Charms) :
       Matched(k) =>
         /\ PointIndex(k) \notin Shadowed
         /\ AtComputed(k)
         /\ Charms[k].customRotation = Undefined =>
              rendered[k].rotation = <<0, Angle(PointIndex(k) - 1, Len(Points)), 0>>
  /\ Len(memo.value) = Len(Points)
  /\ \A j \in Shadowed :
       /\ memo.value[j].id = Points[j].id
       /\ memo.value[j].calculatedRotation = <<0, Angle(j - 1, Len(Points)), 0>>
       /\ \A i \in 1..(j - 1) :
            memo.value[i].calculatedRotation # memo.value[j].calculatedRotation
       /\ \A k \in Placed :
            /\ Charms[k].customRotation = Undefined =>
                 rendered[k].rotation # memo.value[j].calculatedRotation
            /\ Charms[k].customPosition = Undefined =>
                 rendered[k].position # memo.value[j].calculatedPosition

\* two bindings without override name an id that two points of the base
\* share: both stand at the first of the two points
C26_Witness ==
  /\ Shadowed # {}
  /\ Len(Charms) = 2
  /\ \A k \in 1..2 :
       /\ Charms[k].customPosition = Undefined
       /\ Charms[k].customRotation = Undefined
       /\ Matched(k)
       /\ \E j \in Shadowed : Points[j].id = Charms[k].attachmentPointId
       /\ rendered[k].position = memo.value[PointIndex(k)].calculatedPosition
  /\ rendered[1].position = rendered[2].position

\* ------------------------------------------- properties of the model loads
\* C27: NecklaceModel and CharmModel take their catch branch (the warning
\* and the fallback of the catch block) only when the load of the model has
\* failed: while the load is pending no warning is written and the catch
\* branch is not taken, and once the load has succeeded the loaded model
\* stands in the place of the fallback.
C27_CatchOnlyOnFailure ==
  /\ \A p \in warned : LoadState(gltf, p) = "failed"
  /\ LoadState(gltf, necklace.modelPath) = "pending" =>
       models.base.type # "NecklaceFallback"
  /\ \A k \in Placed :
       LoadState(gltf, rendered[k].charm.modelPath) = "pending" =>
         models.charms[k].type # "CharmFallback"

\* C28: every render of the same NecklaceModel or CharmModel makes the same
\* sequence of hooks (the same number, in the same order, with the same
\* dependencies in each slot), whatever the state of the load of the model
\* at that render and at the renders before it.
C28_SameHooks ==
  [][/\ models'.base.hooks = models.base.hooks
     /\ \A k \in Placed :
          (k \in DOMAIN rendered' /\ rendered'[k] # Null
             /\ rendered'[k].key = rendered[k].key) =>
            models'.charms[k].hooks = models.charms[k].hooks]_vars

\* ------------------------------------------ properties of useNecklaceLoader
\* the path of the last render of the hook
LoaderPath == loader.pathDeps[1]

\* C23: useNecklaceLoader resets its state when the model path changes and
\* then follows the load: a change of modelPath gives {model: null,
\* isLoading: true, error: null}; the state is this one while the load of
\* the path runs, it holds the loaded model, without error, only after the
\* load of the path has succeeded, and it holds an error, the message of
\* the failure, only after the load has failed.
C23_LoaderFollowsLoad ==
  /\ [](/\ LoadState(gltf, LoaderPath) = "pending" =>
             loader.state = LoadingState
        /\ loader.state.error # NullId =>
             /\ LoadState(gltf, LoaderPath) = "failed"
             /\ loader.state = [model |-> Null, isLoading |-> FALSE,
                                error |-> FailureMessage(LoaderPath)]
        /\ loader.state.model # Null =>
             /\ LoadState(gltf, LoaderPath) = "loaded"
             /\ loader.state = [model |-> UseGLTF(gltf, LoaderPath),
                                isLoading |-> FALSE, error |-> NullId])
  /\ [][(LoadState(gltf, LoaderPath) = "loaded"
           /\ loader.state.model # Null
           /\ loader'.pathDeps = loader.pathDeps) =>
          loader'.state = loader.state]_vars

\* ----------------------------------------------- properties of getModelPath
\* every call of the chain has given the result of the first call
Idempotent ==
  \A i \in 1..Len(path.results) : path.results[i] = path.results[1]

\* the statement of C24 as written: every path that is not empty is
\* returned unchanged
C24_Original ==
  Len(path.results) >= 1 =>
    /\ path.modelPath # "" => path.results[1] = path.modelPath
    /\ (path.modelPath = "" /\ path.type = "necklace") =>
         path.results[1] = "/models/fallback/chain.gltf"
    /\ (path.modelPath = "" /\ path.type = "charm") =>
         path.results[1] = "/models/fallback/charm.gltf"
    /\ Idempotent

\* C24: getModelPath returns a path that is not empty and does not start
\* with '/models/' unchanged; for the empty path and for every path that
\* starts with '/models/' it returns '/models/fallback/chain.gltf' for the
\* type 'necklace' and '/models/fallback/charm.gltf' for the type 'charm';
\* getModelPath of its own result and the same type is that result again.
C24_FallbackForLocalPaths ==
  Len(path.results) >= 1 =>
    /\ (path.modelPath # "" /\ ~StartsWith(path.modelPath, "/models/")) =>
         path.results[1] = path.modelPath
    /\ (path.modelPath = "" \/ StartsWith(path.modelPath, "/models/")) =>
         /\ path.type = "necklace" =>
              path.results[1] = "/models/fallback/chain.gltf"
         /\ path.type = "charm" =>
              path.results[1] = "/models/fallback/charm.gltf"
    /\ Idempotent

\* getModelPath was called for a model of a necklace below /models/ and
\* then for its own result: both calls gave the fallback of the chain
C24_Witness ==
  /\ path.modelPath = "/models/necklaces/chain.gltf"
  /\ path.type = "necklace"
  /\ path.results = <<"/models/fallback/chain.gltf", "/models/fallback/chain.gltf">>

====
